---- MODULE Spec2Model ----
(***************************************************************************)
(* ChunkPyramid (building_blocks_storage::multiresolution::chunk_pyramid): *)
(* a Vec of ChunkMaps, one per level of detail, and the downsampling       *)
(* protocol that writes coarser levels from finer ones.                    *)
(*                                                                         *)
(* Points are tuples of integers (PointN<[i32; N]>), one component per     *)
(* axis.  All coordinates of the model are far below 2^31 in magnitude,    *)
(* so no i32 operation of the model overflows.                             *)
(***************************************************************************)
EXTENDS Integers, Sequences, FiniteSets, TLC

\* The pyramid, the call made on it, and the for_source_chunk call of SpecDest.
VARIABLES levels, builder, num_lods, pre, call, phase, dest

\* lod_terrain's mesh generator (examples/lod_terrain/mesh_generator.rs):
\* MeshCommands.new_commands and its Mutex, the threads inside add_commands, the
\* run of mesh_generator_system, ChunkMeshes.entities, and the entities of the world.
VARIABLES new_commands, mutex, adders, gen, entities, world, hist

pyramidVars == <<levels, builder, num_lods, pre, call, phase, dest>>
meshVars == <<new_commands, mutex, adders, gen, entities, world, hist>>
vars == <<pyramidVars, meshVars>>

(***************************************************************************)
(* Bounds of the model.                                                    *)
(***************************************************************************)
\* Largest num_lods passed to a constructor; level arguments range over 0..MaxLods.
MaxLods == 4
\* LOD-0 chunk keys of the model are i * chunk_shape for i in 0..MaxKeyIdx.
MaxKeyIdx == 2
\* for_source_chunk alone: chunk shape components are 2^0 .. 2^MaxShapeLog2,
\* source keys are m * chunk_shape for m in -MaxKeyMul..MaxKeyMul, lod_delta in 1..MaxLodDelta.
MaxShapeLog2 == 3
MaxKeyMul == 4
MaxLodDelta == 3
\* Mesh generator: commands added to the queue in all, and mesh entities spawned in all.
MaxCommands == 3
MaxEntities == 4

\* Voxel values.
Voxels == {0, 1}
\* The downsamplers handed to the pyramid.
Samplers == {"point", "max"}

(***************************************************************************)
(* PointN arithmetic, component-wise.                                      *)
(***************************************************************************)
RECURSIVE Pow2(_)
Pow2(s) == IF s <= 0 THEN 1 ELSE 2 * Pow2(s - 1)

\* i32 >> s: arithmetic shift, rounds toward negative infinity.
Shr(c, s) == c \div Pow2(s)
\* i32 << s.
Shl(c, s) == c * Pow2(s)

\* i32::trailing_zeros; 32 for 0.
RECURSIVE TrailingZeros(_)
TrailingZeros(c) ==
    IF c = 0 THEN 32
    ELSE IF c % 2 = 1 THEN 0
    ELSE 1 + TrailingZeros(c \div 2)

PointAdd(p, q) == [i \in DOMAIN p |-> p[i] + q[i]]
PointAddScalar(p, s) == [i \in DOMAIN p |-> p[i] + s]
PointMulScalar(m, p) == [i \in DOMAIN p |-> m * p[i]]
PointDivScalar(p, d) == [i \in DOMAIN p |-> p[i] \div d]
PointShrScalar(p, s) == [i \in DOMAIN p |-> Shr(p[i], s)]
PointShlScalar(p, s) == [i \in DOMAIN p |-> Shl(p[i], s)]
PointShr(p, q) == [i \in DOMAIN p |-> Shr(p[i], q[i])]
PointShl(p, q) == [i \in DOMAIN p |-> Shl(p[i], q[i])]
\* i32 % i32 for a positive divisor: the remainder of the division that truncates
\* toward zero, so it has the sign of the dividend.
Rem(a, b) == IF a >= 0 THEN a % b ELSE -((-a) % b)
\* PointN % PointN, component-wise.
PointRem(p, q) == [i \in DOMAIN p |-> Rem(p[i], q[i])]
PointZero(p) == [i \in DOMAIN p |-> 0]

(***************************************************************************)
(* DownsampleDestination::for_source_chunk                                 *)
(***************************************************************************)
\* Mutant: the destination key is quantized to the source grid (level_up_log2 forgotten).
for_source_chunk_no_level_up(chunk_shape, src_chunk_key, lod_delta) ==
    LET chunk_shape_log2 == [i \in DOMAIN chunk_shape |-> TrailingZeros(chunk_shape[i])]
        level_up_shape == PointShlScalar(chunk_shape, lod_delta)
        dst_chunk_key == PointShl(PointShr(src_chunk_key, chunk_shape_log2), chunk_shape_log2)
        offset == PointRem(src_chunk_key, level_up_shape)
    IN  [dst_chunk_key |-> dst_chunk_key, dst_offset |-> PointShrScalar(offset, lod_delta)]

\* Mutant: the offset is always scaled by one level, whatever lod_delta is.
for_source_chunk_offset_one_level(chunk_shape, src_chunk_key, lod_delta) ==
    LET chunk_shape_log2 == [i \in DOMAIN chunk_shape |-> TrailingZeros(chunk_shape[i])]
        level_up_log2 == PointAddScalar(chunk_shape_log2, lod_delta)
        level_up_shape == PointShlScalar(chunk_shape, lod_delta)
        dst_chunk_key == PointShl(PointShr(src_chunk_key, level_up_log2), chunk_shape_log2)
        offset == PointRem(src_chunk_key, level_up_shape)
    IN  [dst_chunk_key |-> dst_chunk_key, dst_offset |-> PointShrScalar(offset, 1)]

for_source_chunk(chunk_shape, src_chunk_key, lod_delta) ==
    LET chunk_shape_log2 == [i \in DOMAIN chunk_shape |-> TrailingZeros(chunk_shape[i])]
        level_up_log2 == PointAddScalar(chunk_shape_log2, lod_delta)
        level_up_shape == PointShlScalar(chunk_shape, lod_delta)
        dst_chunk_key == PointShl(PointShr(src_chunk_key, level_up_log2), chunk_shape_log2)
        offset == PointRem(src_chunk_key, level_up_shape)
        dst_offset == PointShrScalar(offset, lod_delta)
    IN  [dst_chunk_key |-> dst_chunk_key, dst_offset |-> dst_offset]

(***************************************************************************)
(* ExtentN and Array                                                       *)
(***************************************************************************)
from_min_and_shape(minimum, shape) == [minimum |-> minimum, shape |-> shape]

ExtentContains(e, p) ==
    \A i \in DOMAIN p : e.minimum[i] <= p[i] /\ p[i] < e.minimum[i] + e.shape[i]

RECURSIVE ExtentPoints(_, _)
ExtentPoints(minimum, shape) ==
    IF minimum = <<>> THEN {<<>>}
    ELSE {<<c>> \o r : c \in minimum[1]..(minimum[1] + shape[1] - 1),
                       r \in ExtentPoints(Tail(minimum), Tail(shape))}

\* An array over an extent: one voxel value per point of the extent.
ArrayFill(extent, value) ==
    [extent |-> extent,
     values |-> [p \in ExtentPoints(extent.minimum, extent.shape) |-> value]]

\* Array::fill_extent: sets the points of the array that lie in `extent`.
fill_extent(array, extent, value) ==
    [array EXCEPT !.values =
        [p \in DOMAIN array.values |->
            IF ExtentContains(extent, p) THEN value ELSE array.values[p]]]

(***************************************************************************)
(* ChunkDownsampler: one destination voxel per 2^lod_delta block of the    *)
(* source chunk, written at dst_offset inside the destination chunk.       *)
(***************************************************************************)
SetMax(S) == CHOOSE x \in S : \A y \in S : y <= x

Reduce(sampler, src_array, block_min, lod_delta) ==
    IF sampler = "point" THEN src_array.values[block_min]
    ELSE SetMax({src_array.values[q] :
                    q \in ExtentPoints(block_min, [i \in DOMAIN block_min |-> Pow2(lod_delta)])})

downsample(sampler, src_array, dst_array, dst_offset, lod_delta) ==
    LET dst_shape == PointShrScalar(src_array.extent.shape, lod_delta)
        dst_min == PointAdd(dst_array.extent.minimum, dst_offset)
        dst_extent == from_min_and_shape(dst_min, dst_shape)
        src_block(p) ==
            PointAdd(src_array.extent.minimum,
                     PointShlScalar([i \in DOMAIN p |-> p[i] - dst_min[i]], lod_delta))
    IN  [dst_array EXCEPT !.values =
            [p \in DOMAIN dst_array.values |->
                IF ExtentContains(dst_extent, p)
                THEN Reduce(sampler, src_array, src_block(p), lod_delta)
                ELSE dst_array.values[p]]]

(***************************************************************************)
(* ChunkMap: indexer, ambient value and chunk storage (key -> chunk array) *)
(***************************************************************************)
EmptyStorage == [k \in {} |-> 0]

build_with_write_storage(b) ==
    [indexer |-> [chunk_shape |-> b.chunk_shape],
     ambient_value |-> b.ambient_value,
     storage |-> EmptyStorage]

extent_for_chunk_with_min(map, key) == from_min_and_shape(key, map.indexer.chunk_shape)

write_chunk(map, key, array) ==
    [map EXCEPT !.storage =
        [k \in DOMAIN map.storage \cup {key} |-> IF k = key THEN array ELSE map.storage[k]]]

get_mut_chunk_or_insert_ambient(map, key) ==
    IF key \in DOMAIN map.storage THEN map
    ELSE write_chunk(map, key, ArrayFill(extent_for_chunk_with_min(map, key), map.ambient_value))

SetMin(S) == CHOOSE x \in S : \A y \in S : x <= y

\* The smallest extent covering every occupied chunk's extent (some chunk exists).
bounding_extent(map) ==
    LET keys == DOMAIN map.storage
        axes == DOMAIN map.indexer.chunk_shape
        lo == [i \in axes |-> SetMin({k[i] : k \in keys})]
        hi == [i \in axes |-> SetMax({k[i] : k \in keys}) + map.indexer.chunk_shape[i]]
    IN  from_min_and_shape(lo, [i \in axes |-> hi[i] - lo[i]])

RECURSIVE RangeSeq(_, _)
RangeSeq(lo, hi) == IF lo > hi THEN <<>> ELSE <<lo>> \o RangeSeq(lo + 1, hi)

RECURSIVE Flatten(_)
Flatten(ss) == IF ss = <<>> THEN <<>> ELSE Head(ss) \o Flatten(Tail(ss))

\* The points of [lo, hi], first axis fastest.
RECURSIVE PointsSeq(_, _)
PointsSeq(lo, hi) ==
    IF lo = <<>> THEN << <<>> >>
    ELSE LET n == Len(lo)
             inner == PointsSeq(SubSeq(lo, 1, n - 1), SubSeq(hi, 1, n - 1))
             outer == RangeSeq(lo[n], hi[n])
         IN  Flatten([j \in 1..Len(outer) |->
                        [i \in 1..Len(inner) |-> inner[i] \o <<outer[j]>>]])

\* ChunkIndexer::chunk_keys_for_extent: the keys of the chunks that overlap the extent.
chunk_keys_for_extent(indexer, extent) ==
    LET log2 == [i \in DOMAIN indexer.chunk_shape |-> TrailingZeros(indexer.chunk_shape[i])]
        range_min == PointShr(extent.minimum, log2)
        range_max == PointShr([i \in DOMAIN extent.minimum |->
                                  extent.minimum[i] + extent.shape[i] - 1], log2)
        cells == PointsSeq(range_min, range_max)
    IN  [j \in 1..Len(cells) |-> PointShl(cells[j], log2)]

(***************************************************************************)
(* ChunkPyramid                                                            *)
(***************************************************************************)
\* levels: Vec<ChunkMap>, a function on 0 .. len - 1.
NumLevels(lv) == Cardinality(DOMAIN lv)

\* Mutant: one level too many.
new_one_more(b, n) == [i \in 0..n |-> build_with_write_storage(b)]

\* ChunkHashMapPyramid::new and CompressibleChunkPyramid::new
new(b, n) == [i \in 0..(n - 1) |-> build_with_write_storage(b)]

\* ChunkHashMapPyramid::with_lod0_chunk_map; level_mut(0) panics when num_lods = 0.
with_lod0_chunk_map(lod0_chunk_map, n) ==
    [new([chunk_shape |-> lod0_chunk_map.indexer.chunk_shape,
          ambient_value |-> lod0_chunk_map.ambient_value], n) EXCEPT ![0] = lod0_chunk_map]

NoRefs == [ok |-> FALSE, map_a |-> -1, map_b |-> -1]

\* Mutant: the two levels are taken in either order.
two_levels_mut_either_order(lv, lod_a, lod_b) ==
    LET n == NumLevels(lv)
        lo == IF lod_a <= lod_b THEN lod_a ELSE lod_b
        hi == IF lod_a <= lod_b THEN lod_b ELSE lod_a
    IN  IF hi > n THEN NoRefs
        ELSE LET head == [i \in 0..(hi - 1) |-> i]
                 tail == [i \in 0..(n - hi - 1) |-> hi + i]
             IN  IF lo \notin DOMAIN head THEN NoRefs
                 ELSE IF (hi - lo - 1) \notin DOMAIN tail THEN NoRefs
                 ELSE IF lod_a <= lod_b
                      THEN [ok |-> TRUE, map_a |-> head[lo], map_b |-> tail[hi - lo - 1]]
                      ELSE [ok |-> TRUE, map_a |-> tail[hi - lo - 1], map_b |-> head[lo]]

\* Mutant: the two references are handed out in the opposite roles.
two_levels_mut_swapped(lv, lod_a, lod_b) ==
    LET n == NumLevels(lv) IN
    IF lod_b > n THEN NoRefs
    ELSE LET head == [i \in 0..(lod_b - 1) |-> i]
             tail == [i \in 0..(n - lod_b - 1) |-> lod_b + i]
         IN  IF lod_a \notin DOMAIN head THEN NoRefs
             ELSE IF (lod_b - lod_a - 1) \notin DOMAIN tail THEN NoRefs
             ELSE [ok |-> TRUE, map_a |-> tail[lod_b - lod_a - 1], map_b |-> head[lod_a]]

\* The levels that the two returned references point to, as indices into `levels`;
\* ok = FALSE when split_at_mut or one of the two slice indexings panics.
two_levels_mut(lv, lod_a, lod_b) ==
    LET n == NumLevels(lv) IN
    IF lod_b > n THEN NoRefs
    ELSE LET head == [i \in 0..(lod_b - 1) |-> i]
             tail == [i \in 0..(n - lod_b - 1) |-> lod_b + i]
         IN  IF lod_a \notin DOMAIN head THEN NoRefs
             ELSE IF (lod_b - lod_a - 1) \notin DOMAIN tail THEN NoRefs
             ELSE [ok |-> TRUE, map_a |-> head[lod_a], map_b |-> tail[lod_b - lod_a - 1]]

Panicked(lv) == [levels |-> lv, outcome |-> "panic", sampled |-> FALSE]

\* downsample_chunk after its assertion: the two maps, the destination and the write.
downsample_between(lv, sampler, src_chunk_key, src_lod, dst_lod) ==
    LET two == two_levels_mut(lv, src_lod, dst_lod) IN
    IF ~two.ok THEN Panicked(lv)
    ELSE LET src_map == lv[two.map_a]
             dst_map == lv[two.map_b]
             lod_delta == dst_lod - src_lod
             chunk_shape == src_map.indexer.chunk_shape
             dst == for_source_chunk(chunk_shape, src_chunk_key, lod_delta)
             dst_map1 == get_mut_chunk_or_insert_ambient(dst_map, dst.dst_chunk_key)
             dst_chunk == dst_map1.storage[dst.dst_chunk_key]
             src_exists == src_chunk_key \in DOMAIN src_map.storage
             dst_extent == from_min_and_shape(
                               PointAdd(dst_chunk.extent.minimum, dst.dst_offset),
                               PointShrScalar(chunk_shape, 1))
             new_chunk ==
                 IF src_exists
                 THEN downsample(sampler, src_map.storage[src_chunk_key], dst_chunk,
                                 dst.dst_offset, lod_delta)
                 ELSE fill_extent(dst_chunk, dst_extent, src_map.ambient_value)
         IN  [levels |-> [lv EXCEPT ![two.map_b] =
                             write_chunk(dst_map1, dst.dst_chunk_key, new_chunk)],
              outcome |-> "ok",
              sampled |-> src_exists]

\* Mutant: instead of asserting dst_lod > src_lod, the two levels are put in order.
downsample_chunk_sorting_lods(lv, sampler, src_chunk_key, src_lod, dst_lod) ==
    IF dst_lod = src_lod THEN Panicked(lv)
    ELSE IF dst_lod > src_lod
         THEN downsample_between(lv, sampler, src_chunk_key, src_lod, dst_lod)
         ELSE downsample_between(lv, sampler, src_chunk_key, dst_lod, src_lod)

downsample_chunk(lv, sampler, src_chunk_key, src_lod, dst_lod) ==
    IF ~(dst_lod > src_lod) THEN Panicked(lv)
    ELSE downsample_between(lv, sampler, src_chunk_key, src_lod, dst_lod)

\* The loop of downsample_chunk_all_lods from dst_lod on; steps logs the
\* downsample_chunk calls made, in order.
RECURSIVE all_lods_loop(_, _, _, _, _)
all_lods_loop(lv, sampler, src_chunk_key, dst_lod, steps) ==
    IF dst_lod >= NumLevels(lv) THEN [levels |-> lv, outcome |-> "ok", steps |-> steps]
    ELSE LET src_lod == dst_lod - 1
             r == downsample_chunk(lv, sampler, src_chunk_key, src_lod, dst_lod)
             steps1 == Append(steps, [src_chunk_key |-> src_chunk_key,
                                      src_lod |-> src_lod, dst_lod |-> dst_lod])
         IN  IF r.outcome = "panic"
             THEN [levels |-> r.levels, outcome |-> "panic", steps |-> steps1]
             ELSE all_lods_loop(r.levels, sampler, PointShrScalar(src_chunk_key, 1),
                                dst_lod + 1, steps1)

\* Mutant: the source key is not shifted from one level to the next.
RECURSIVE all_lods_loop_same_key(_, _, _, _, _)
all_lods_loop_same_key(lv, sampler, src_chunk_key, dst_lod, steps) ==
    IF dst_lod >= NumLevels(lv) THEN [levels |-> lv, outcome |-> "ok", steps |-> steps]
    ELSE LET r == downsample_chunk(lv, sampler, src_chunk_key, dst_lod - 1, dst_lod)
             steps1 == Append(steps, [src_chunk_key |-> src_chunk_key,
                                      src_lod |-> dst_lod - 1, dst_lod |-> dst_lod])
         IN  IF r.outcome = "panic"
             THEN [levels |-> r.levels, outcome |-> "panic", steps |-> steps1]
             ELSE all_lods_loop_same_key(r.levels, sampler, src_chunk_key, dst_lod + 1, steps1)

downsample_chunk_all_lods_same_key(lv, sampler, lod0_chunk_key) ==
    all_lods_loop_same_key(lv, sampler, lod0_chunk_key, 1, <<>>)

\* Mutant: the levels are walked from the coarsest down, each read before it is rewritten.
RECURSIVE all_lods_loop_coarsest_first(_, _, _, _, _)
all_lods_loop_coarsest_first(lv, sampler, lod0_chunk_key, dst_lod, steps) ==
    IF dst_lod < 1 THEN [levels |-> lv, outcome |-> "ok", steps |-> steps]
    ELSE LET src_chunk_key == PointShrScalar(lod0_chunk_key, dst_lod - 1)
             r == downsample_chunk(lv, sampler, src_chunk_key, dst_lod - 1, dst_lod)
             steps1 == Append(steps, [src_chunk_key |-> src_chunk_key,
                                      src_lod |-> dst_lod - 1, dst_lod |-> dst_lod])
         IN  IF r.outcome = "panic"
             THEN [levels |-> r.levels, outcome |-> "panic", steps |-> steps1]
             ELSE all_lods_loop_coarsest_first(r.levels, sampler, lod0_chunk_key,
                                               dst_lod - 1, steps1)

downsample_chunk_all_lods_coarsest_first(lv, sampler, lod0_chunk_key) ==
    all_lods_loop_coarsest_first(lv, sampler, lod0_chunk_key, NumLevels(lv) - 1, <<>>)

downsample_chunk_all_lods(lv, sampler, lod0_chunk_key) ==
    all_lods_loop(lv, sampler, lod0_chunk_key, 1, <<>>)

\* downsample_chunk_all_lods for the keys of a sequence, in its order.
RECURSIVE all_lods_for_keys(_, _, _)
all_lods_for_keys(lv, sampler, keys) ==
    IF keys = <<>> THEN [levels |-> lv, outcome |-> "ok"]
    ELSE LET r == downsample_chunk_all_lods(lv, sampler, Head(keys))
         IN  IF r.outcome = "panic" THEN [levels |-> r.levels, outcome |-> "panic"]
             ELSE all_lods_for_keys(r.levels, sampler, Tail(keys))

\* self.levels[0] panics on a pyramid without levels.
downsample_chunks_for_extent_all_lods(lv, sampler, lod0_extent) ==
    IF NumLevels(lv) = 0 THEN [levels |-> lv, outcome |-> "panic"]
    ELSE all_lods_for_keys(lv, sampler, chunk_keys_for_extent(lv[0].indexer, lod0_extent))

\* With no chunk in level 0 there is no bounding extent to walk.
downsample_entire_map_all_lods(lv, sampler) ==
    IF NumLevels(lv) = 0 THEN [levels |-> lv, outcome |-> "panic"]
    ELSE IF DOMAIN lv[0].storage = {} THEN [levels |-> lv, outcome |-> "ok"]
    ELSE downsample_chunks_for_extent_all_lods(lv, sampler, bounding_extent(lv[0]))

(***************************************************************************)
(* Inputs of the calls                                                     *)
(***************************************************************************)
LodArgs == 0..MaxLods

\* Chunk-aligned LOD-0 keys.
KeyArgs(chunk_shape) == {PointMulScalar(i, chunk_shape) : i \in 0..MaxKeyIdx}

\* Extents from voxel `off` of the chunk at lo to the end of the chunk at hi.
ExtentArgs(chunk_shape) ==
    {from_min_and_shape(PointAddScalar(ks[1], off),
                        [i \in DOMAIN chunk_shape |-> ks[2][i] - ks[1][i] + chunk_shape[i] - off]) :
        ks \in {ks \in KeyArgs(chunk_shape) \X KeyArgs(chunk_shape) :
                    \A i \in DOMAIN chunk_shape : ks[1][i] <= ks[2][i]},
        off \in {0, 1}}

\* The chunks a caller writes: a value other than the ambient one on every voxel,
\* or on the odd voxels of an ambient chunk.
OddPatternArgs(ambient_value) ==
    {[kind |-> "odd", value |-> v] : v \in Voxels \ {ambient_value}}

PatternArgs(ambient_value) ==
    {[kind |-> "solid", value |-> v] : v \in Voxels \ {ambient_value}}
        \cup OddPatternArgs(ambient_value)

Sum(p) == IF p = <<>> THEN 0 ELSE IF Len(p) = 1 THEN p[1] ELSE p[1] + p[2]

PatternArray(map, key, pat) ==
    LET e == extent_for_chunk_with_min(map, key)
    IN  [extent |-> e,
         values |-> [p \in ExtentPoints(e.minimum, e.shape) |->
                        IF pat.kind = "solid" \/ Sum(p) % 2 = 1
                        THEN pat.value ELSE map.ambient_value]]

\* The builder of the pyramids of the model: chunks of four voxels on one axis.
BuilderArgs == {[chunk_shape |-> <<4>>, ambient_value |-> 0]}

\* LOD-0 maps handed to with_lod0_chunk_map: some chunks, all of one pattern.
Lod0MapArgs(b) ==
    {[build_with_write_storage(b) EXCEPT !.storage =
          [k \in K |-> PatternArray(build_with_write_storage(b), k, pat)]] :
        K \in SUBSET KeyArgs(b.chunk_shape) \ {{}}, pat \in OddPatternArgs(b.ambient_value)}

(***************************************************************************)
(* lod_terrain mesh generator (examples/lod_terrain/mesh_generator.rs)     *)
(***************************************************************************)
\* Chunks of a two-level tree: a LOD-1 chunk and its two LOD-0 children.
ChunkKeys == {"lod1", "lod0a", "lod0b"}

\* enum MeshCommand, with LodChange3::Split and LodChange3::Merge.
Create(key) ==
    [kind |-> "Create", key |-> <<key>>, old_chunks |-> <<>>, new_chunks |-> <<>>]
Split(old_chunk, new_chunks) ==
    [kind |-> "Split", key |-> <<>>, old_chunks |-> <<old_chunk>>, new_chunks |-> new_chunks]
Merge(old_chunks, new_chunk) ==
    [kind |-> "Merge", key |-> <<>>, old_chunks |-> old_chunks, new_chunks |-> <<new_chunk>>]

\* Mutant: the queue is copied and left as it was.
mem_replace_clone(dest_vec) == [old |-> dest_vec, dest |-> dest_vec]

\* std::mem::replace(&mut *new_commands, Vec::new())
mem_replace(dest_vec) == [old |-> dest_vec, dest |-> <<>>]

\* The loop over the taken batch: the keys pushed to chunks_to_remove and the keys
\* given to make_mesh, both in order.  Create does nothing.
RECURSIVE commands_loop(_)
commands_loop(cmds) ==
    IF cmds = <<>> THEN [chunks_to_remove |-> <<>>, made |-> <<>>]
    ELSE LET command == Head(cmds)
             rest == commands_loop(Tail(cmds))
         IN  IF command.kind = "Create" THEN rest
             ELSE [chunks_to_remove |-> command.old_chunks \o rest.chunks_to_remove,
                   made |-> command.new_chunks \o rest.made]

\* The results of the mesh tasks: (key, Option<PosNormMesh>), Some for the keys of
\* `meshable`, the chunks for which create_mesh_for_chunk returns a mesh.
new_meshes(made, meshable) ==
    [j \in 1..Len(made) |-> [chunk_key |-> made[j], item |-> made[j] \in meshable]]

\* commands.entity(entity).despawn()
despawn(w, entity) ==
    [w EXCEPT !.despawned = @ \cup {entity},
              !.twice = @ \/ entity \in w.despawned]

\* commands.spawn_bundle(..).id(): the new entity is w.next.
spawn_bundle(w) == [w EXCEPT !.next = @ + 1, !.spawned = @ \cup {w.next}]

\* entities.remove(&key), as the map that is left.
MapRemove(map, key) == [k \in DOMAIN map \ {key} |-> map[k]]

\* for key in chunks_to_remove: remove the key's entity from the map and despawn it.
RECURSIVE remove_chunks(_, _)
remove_chunks(st, keys) ==
    IF keys = <<>> THEN st
    ELSE LET key == Head(keys)
             st1 == IF key \in DOMAIN st.entities
                    THEN [entities |-> MapRemove(st.entities, key),
                          world |-> despawn(st.world, st.entities[key])]
                    ELSE st
         IN  remove_chunks(st1, Tail(keys))

\* Mutant: the mesh entity a key had before is left in the world.
RECURSIVE spawn_mesh_entities_keep_old(_, _)
spawn_mesh_entities_keep_old(st, new_chunk_meshes) ==
    IF new_chunk_meshes = <<>> THEN st
    ELSE LET chunk_key == Head(new_chunk_meshes).chunk_key
             st1 == IF Head(new_chunk_meshes).item
                    THEN [entities |-> (chunk_key :> st.world.next) @@ st.entities,
                          world |-> spawn_bundle(st.world)]
                    ELSE [entities |-> MapRemove(st.entities, chunk_key), world |-> st.world]
         IN  spawn_mesh_entities_keep_old(st1, Tail(new_chunk_meshes))

RECURSIVE spawn_mesh_entities(_, _)
spawn_mesh_entities(st, new_chunk_meshes) ==
    IF new_chunk_meshes = <<>> THEN st
    ELSE LET chunk_key == Head(new_chunk_meshes).chunk_key
             had_mesh == chunk_key \in DOMAIN st.entities
             st1 == IF Head(new_chunk_meshes).item
                    THEN [entities |-> (chunk_key :> st.world.next) @@ st.entities,
                          world |-> spawn_bundle(st.world)]
                    ELSE [entities |-> MapRemove(st.entities, chunk_key), world |-> st.world]
             st2 == IF had_mesh
                    THEN [st1 EXCEPT !.world = despawn(@, st.entities[chunk_key])]
                    ELSE st1
         IN  spawn_mesh_entities(st2, Tail(new_chunk_meshes))

\* apply_mesh_commands after the batch is taken, then spawn_mesh_entities.
run_batch(st, batch, meshable) ==
    LET loop == commands_loop(batch)
    IN  spawn_mesh_entities(remove_chunks(st, loop.chunks_to_remove),
                            new_meshes(loop.made, meshable))

\* The keys of a set in some order: chunk_meshes.entities.keys().
RECURSIVE SeqOfSet(_)
SeqOfSet(S) == IF S = {} THEN <<>> ELSE LET x == CHOOSE x \in S : TRUE IN <<x>> \o SeqOfSet(S \ {x})

\* Threads that call add_commands.
Adders == {"t1", "t2"}

\* The commands the LOD systems add, and the iterators handed to add_commands.
MeshCommandArgs ==
    {Create("lod1"), Split("lod1", <<"lod0a", "lod0b">>), Merge(<<"lod0a", "lod0b">>, "lod1")}

AddArgs ==
    {<<c>> : c \in MeshCommandArgs} \cup {<<c1, c2>> : c1, c2 \in MeshCommandArgs}

NoHist == [added |-> <<>>, taken |-> <<>>, before |-> <<>>, batch |-> <<>>,
           meshable |-> {}, applied |-> FALSE]

\* Default resources: an empty queue, an unlocked mutex, no mesh entity.
MeshInit ==
    /\ new_commands = <<>>
    /\ mutex = "free"
    /\ adders = [t \in Adders |-> [pc |-> "idle", commands |-> <<>>]]
    /\ gen = [pc |-> "idle", batch |-> <<>>]
    /\ entities = <<>>
    /\ world = [next |-> 0, spawned |-> {}, despawned |-> {}, twice |-> FALSE]
    /\ hist = NoHist

\* add_commands: self.new_commands.lock().unwrap()
AddLock(t, commands) ==
    /\ adders[t].pc = "idle"
    /\ mutex = "free"
    /\ Len(hist.added) + Len(commands) <= MaxCommands
    /\ mutex' = t
    /\ adders' = [adders EXCEPT ![t] = [pc |-> "locked", commands |-> commands]]
    /\ UNCHANGED <<new_commands, gen, entities, world, hist, pyramidVars>>

\* add_commands: new_commands.extend(commands)
AddExtend(t) ==
    /\ adders[t].pc = "locked"
    /\ new_commands' = new_commands \o adders[t].commands
    /\ hist' = [hist EXCEPT !.added = @ \o adders[t].commands]
    /\ adders' = [adders EXCEPT ![t].pc = "extended"]
    /\ UNCHANGED <<mutex, gen, entities, world, pyramidVars>>

\* add_commands returns: the guard is dropped.
AddUnlock(t) ==
    /\ adders[t].pc = "extended"
    /\ mutex' = "free"
    /\ adders' = [adders EXCEPT ![t] = [pc |-> "idle", commands |-> <<>>]]
    /\ UNCHANGED <<new_commands, gen, entities, world, hist, pyramidVars>>

\* apply_mesh_commands: mesh_commands.new_commands.lock().unwrap()
GenLock ==
    /\ gen.pc = "idle"
    /\ mutex = "free"
    /\ mutex' = "gen"
    /\ gen' = [gen EXCEPT !.pc = "locked"]
    /\ UNCHANGED <<new_commands, adders, entities, world, hist, pyramidVars>>

\* apply_mesh_commands: std::mem::replace under the lock.
GenReplace ==
    /\ gen.pc = "locked"
    /\ LET r == mem_replace(new_commands)
       IN  /\ new_commands' = r.dest
           /\ gen' = [pc |-> "taken", batch |-> r.old]
           /\ hist' = [hist EXCEPT !.taken = @ \o r.old]
    /\ UNCHANGED <<mutex, adders, entities, world, pyramidVars>>

\* The guard, a temporary of the statement, is dropped.
GenUnlock ==
    /\ gen.pc = "taken"
    /\ mutex' = "free"
    /\ gen' = [gen EXCEPT !.pc = "apply"]
    /\ UNCHANGED <<new_commands, adders, entities, world, hist, pyramidVars>>

\* The rest of mesh_generator_system: the loop over the batch, the removals, and
\* spawn_mesh_entities.  The system holds ChunkMeshes exclusively.
GenApply(meshable) ==
    /\ gen.pc = "apply"
    /\ world.next + Len(commands_loop(gen.batch).made) <= MaxEntities
    /\ LET st == run_batch([entities |-> entities, world |-> world], gen.batch, meshable)
       IN  /\ entities' = st.entities
           /\ world' = st.world
    /\ gen' = [pc |-> "idle", batch |-> <<>>]
    /\ hist' = [hist EXCEPT !.before = entities, !.batch = gen.batch,
                            !.meshable = meshable, !.applied = TRUE]
    /\ UNCHANGED <<new_commands, mutex, adders, pyramidVars>>

\* mesh_deleter_system: the chunks of `outside` are not bounded by the clip sphere
\* (none when there is no camera).  It runs between runs of mesh_generator_system.
MeshDeleter(outside) ==
    /\ gen.pc = "idle"
    /\ outside # {}
    /\ LET keys == SeqOfSet(outside)
           st == remove_chunks([entities |-> entities, world |-> world], keys)
       IN  /\ entities' = st.entities
           /\ world' = st.world
    /\ hist' = [hist EXCEPT !.applied = FALSE]
    /\ UNCHANGED <<new_commands, mutex, adders, gen, pyramidVars>>

NextMesh ==
    \/ \E t \in Adders, commands \in AddArgs : AddLock(t, commands)
    \/ \E t \in Adders : AddExtend(t)
    \/ \E t \in Adders : AddUnlock(t)
    \/ GenLock
    \/ GenReplace
    \/ GenUnlock
    \/ \E meshable \in SUBSET ChunkKeys : GenApply(meshable)
    \/ \E outside \in SUBSET DOMAIN entities : MeshDeleter(outside)

(***************************************************************************)
(* State machine.  A behaviour is a pyramid after construction, at most    *)
(* one write by the caller through level_mut, and then one call on the     *)
(* pyramid; downsample_entire_map_all_lods may be run a second time with   *)
(* the same downsampler.  `pre` is the pyramid before the last call.       *)
(***************************************************************************)
NoExtent == from_min_and_shape(<<>>, <<>>)

Call(op, outcome) ==
    [op |-> op, outcome |-> outcome, sampler |-> "none", key |-> <<>>,
     extent |-> NoExtent, lod_a |-> -1, lod_b |-> -1,
     map_a |-> -1, map_b |-> -1, sampled |-> FALSE, steps |-> <<>>, again |-> FALSE]

NoDest == [chunk_shape |-> <<>>, src_chunk_key |-> <<>>, lod_delta |-> 0,
           applied |-> FALSE, dst_chunk_key |-> <<>>, dst_offset |-> <<>>]

Init ==
    /\ builder \in BuilderArgs
    /\ num_lods \in 0..MaxLods
    /\ \/ /\ levels = new(builder, num_lods)
          /\ call = Call("new", "ok")
       \/ /\ num_lods >= 1
          /\ \E m \in Lod0MapArgs(builder) : levels = with_lod0_chunk_map(m, num_lods)
          /\ call = Call("with_lod0_chunk_map", "ok")
    /\ pre = levels
    /\ phase = "built"
    /\ dest = NoDest
    /\ MeshInit

\* *pyramid.level_mut(lod) = ... : the caller puts a chunk into a level.
LevelMutWrite(lod, key, pat) ==
    /\ phase = "built"
    /\ phase' = "written"
    /\ pre' = levels
    /\ IF lod \in DOMAIN levels
       THEN /\ levels' = [levels EXCEPT ![lod] =
                            write_chunk(@, key, PatternArray(@, key, pat))]
            /\ call' = [Call("level_mut_write", "ok") EXCEPT !.lod_a = lod, !.key = key]
       ELSE /\ levels' = levels
            /\ call' = [Call("level_mut_write", "panic") EXCEPT !.lod_a = lod, !.key = key]
    /\ UNCHANGED <<builder, num_lods, dest, meshVars>>

\* A panic is fatal: nothing is called after it.
CanCall == phase \in {"built", "written"} /\ call.outcome = "ok"

TwoLevelsMut(lod_a, lod_b) ==
    LET two == two_levels_mut(levels, lod_a, lod_b)
    IN  /\ CanCall
        /\ phase' = "called"
        /\ pre' = levels
        /\ call' = [Call("two_levels_mut", IF two.ok THEN "ok" ELSE "panic") EXCEPT
                        !.lod_a = lod_a, !.lod_b = lod_b,
                        !.map_a = two.map_a, !.map_b = two.map_b]
        /\ UNCHANGED <<levels, builder, num_lods, dest, meshVars>>

DownsampleChunk(sampler, src_chunk_key, src_lod, dst_lod) ==
    LET r == downsample_chunk(levels, sampler, src_chunk_key, src_lod, dst_lod)
    IN  /\ CanCall
        /\ phase' = "called"
        /\ pre' = levels
        /\ levels' = r.levels
        /\ call' = [Call("downsample_chunk", r.outcome) EXCEPT
                        !.sampler = sampler, !.key = src_chunk_key,
                        !.lod_a = src_lod, !.lod_b = dst_lod, !.sampled = r.sampled]
        /\ UNCHANGED <<builder, num_lods, dest, meshVars>>

DownsampleChunkAllLods(sampler, lod0_chunk_key) ==
    LET r == downsample_chunk_all_lods(levels, sampler, lod0_chunk_key)
    IN  /\ CanCall
        /\ phase' = "called"
        /\ pre' = levels
        /\ levels' = r.levels
        /\ call' = [Call("downsample_chunk_all_lods", r.outcome) EXCEPT
                        !.sampler = sampler, !.key = lod0_chunk_key, !.steps = r.steps]
        /\ UNCHANGED <<builder, num_lods, dest, meshVars>>

DownsampleChunksForExtentAllLods(sampler, lod0_extent) ==
    LET r == downsample_chunks_for_extent_all_lods(levels, sampler, lod0_extent)
    IN  /\ CanCall
        /\ phase' = "called"
        /\ pre' = levels
        /\ levels' = r.levels
        /\ call' = [Call("downsample_chunks_for_extent_all_lods", r.outcome) EXCEPT
                        !.sampler = sampler, !.extent = lod0_extent]
        /\ UNCHANGED <<builder, num_lods, dest, meshVars>>

DownsampleEntireMapAllLods(sampler) ==
    LET r == downsample_entire_map_all_lods(levels, sampler)
        again == phase = "called"
    IN  /\ \/ CanCall
           \/ /\ again
              /\ call.op = "downsample_entire_map_all_lods"
              /\ call.outcome = "ok"
              /\ call.sampler = sampler
              /\ ~call.again
        /\ phase' = "called"
        /\ pre' = levels
        /\ levels' = r.levels
        /\ call' = [Call("downsample_entire_map_all_lods", r.outcome) EXCEPT
                        !.sampler = sampler, !.again = again]
        /\ UNCHANGED <<builder, num_lods, dest, meshVars>>

Next ==
    \/ /\ phase = "built"
       /\ \E lod \in LodArgs, key \in KeyArgs(builder.chunk_shape),
             pat \in PatternArgs(builder.ambient_value) :
             LevelMutWrite(lod, key, pat)
    \/ /\ CanCall
       /\ \E lod_a \in LodArgs, lod_b \in LodArgs :
             TwoLevelsMut(lod_a, lod_b)
    \/ /\ CanCall
       /\ \E sampler \in Samplers, key \in KeyArgs(builder.chunk_shape),
             src_lod \in LodArgs, dst_lod \in LodArgs :
             DownsampleChunk(sampler, key, src_lod, dst_lod)
    \/ /\ CanCall
       /\ \E sampler \in Samplers, key \in KeyArgs(builder.chunk_shape) :
             DownsampleChunkAllLods(sampler, key)
    \/ /\ CanCall
       /\ \E sampler \in Samplers, extent \in ExtentArgs(builder.chunk_shape) :
             DownsampleChunksForExtentAllLods(sampler, extent)
    \/ /\ call.outcome = "ok"
       /\ \E sampler \in Samplers :
             DownsampleEntireMapAllLods(sampler)

Spec == Init /\ [][Next]_vars

(***************************************************************************)
(* for_source_chunk alone, on chunk shapes and keys of two axes.           *)
(***************************************************************************)
Pow2Shapes == {<<Pow2(i), Pow2(j)>> : i \in 0..MaxShapeLog2, j \in 0..MaxShapeLog2}

\* Chunk-aligned source keys are these multiples of the chunk shape.
KeyMuls == (-MaxKeyMul)..MaxKeyMul

InitDest ==
    /\ builder = [chunk_shape |-> <<2>>, ambient_value |-> 0]
    /\ num_lods = 0
    /\ levels = new(builder, num_lods)
    /\ call = Call("new", "ok")
    /\ pre = levels
    /\ phase = "built"
    /\ \E chunk_shape \in Pow2Shapes, m1 \in KeyMuls, m2 \in KeyMuls,
          lod_delta \in 1..MaxLodDelta :
          dest = [NoDest EXCEPT !.chunk_shape = chunk_shape,
                                !.src_chunk_key = <<m1 * chunk_shape[1], m2 * chunk_shape[2]>>,
                                !.lod_delta = lod_delta]
    /\ MeshInit

ForSourceChunk ==
    /\ ~dest.applied
    /\ LET d == for_source_chunk(dest.chunk_shape, dest.src_chunk_key, dest.lod_delta)
       IN  dest' = [dest EXCEPT !.applied = TRUE,
                                !.dst_chunk_key = d.dst_chunk_key,
                                !.dst_offset = d.dst_offset]
    /\ UNCHANGED <<levels, builder, num_lods, pre, call, phase, meshVars>>

NextDest == ForSourceChunk

SpecDest == InitDest /\ [][NextDest]_vars

(***************************************************************************)
(* The mesh generator alone: threads adding commands, mesh_generator_system *)
(* and mesh_deleter_system.                                                *)
(***************************************************************************)
InitMesh ==
    /\ builder = [chunk_shape |-> <<2>>, ambient_value |-> 0]
    /\ num_lods = 0
    /\ levels = new(builder, num_lods)
    /\ call = Call("new", "ok")
    /\ pre = levels
    /\ phase = "built"
    /\ dest = NoDest
    /\ MeshInit

SpecMesh == InitMesh /\ [][NextMesh]_vars

(***************************************************************************)
(* Claims                                                                  *)
(***************************************************************************)
ValidLod(lv, lod) == lod \in DOMAIN lv

\* C1: for every pair of level indices a < b < n, two_levels_mut(a, b) succeeds and
\* the two references it returns are level a and level b, two different levels.
C1_TwoLevelsMutReturnsAandB ==
    (/\ call.op = "two_levels_mut"
     /\ call.lod_a < call.lod_b
     /\ call.lod_b < NumLevels(levels))
    => (/\ call.outcome = "ok"
        /\ call.map_a = call.lod_a
        /\ call.map_b = call.lod_b
        /\ call.map_a # call.map_b)

\* C4: with lod_delta = 1, the source key chunk_shape lands in destination chunk 0 at
\* offset chunk_shape / 2, and the source key 2 * chunk_shape lands in destination
\* chunk chunk_shape at offset 0, for every power-of-two chunk shape.
C4_OneLevelUp ==
    (dest.applied /\ dest.lod_delta = 1)
    => (/\ dest.src_chunk_key = dest.chunk_shape
            => (/\ dest.dst_chunk_key = PointZero(dest.chunk_shape)
                /\ dest.dst_offset = PointDivScalar(dest.chunk_shape, 2))
        /\ dest.src_chunk_key = PointMulScalar(2, dest.chunk_shape)
            => (/\ dest.dst_chunk_key = dest.chunk_shape
                /\ dest.dst_offset = PointZero(dest.chunk_shape)))

C4_Witness ==
    /\ dest.applied
    /\ dest.lod_delta = 1
    /\ dest.chunk_shape = <<2, 8>>
    /\ dest.src_chunk_key = <<2, 8>>
    /\ dest.dst_offset = <<1, 4>>

\* C5: with lod_delta = 2, the source key 3 * chunk_shape lands in destination chunk 0
\* at offset 3 * chunk_shape / 4, and the source key 4 * chunk_shape lands in
\* destination chunk chunk_shape at offset 0, for every power-of-two chunk shape.
C5_TwoLevelsUp ==
    (dest.applied /\ dest.lod_delta = 2)
    => (/\ dest.src_chunk_key = PointMulScalar(3, dest.chunk_shape)
            => (/\ dest.dst_chunk_key = PointZero(dest.chunk_shape)
                /\ dest.dst_offset = PointDivScalar(PointMulScalar(3, dest.chunk_shape), 4))
        /\ dest.src_chunk_key = PointMulScalar(4, dest.chunk_shape)
            => (/\ dest.dst_chunk_key = dest.chunk_shape
                /\ dest.dst_offset = PointZero(dest.chunk_shape)))

C5_Witness ==
    /\ dest.applied
    /\ dest.lod_delta = 2
    /\ dest.chunk_shape = <<4, 8>>
    /\ dest.src_chunk_key = <<12, 24>>
    /\ dest.dst_offset = <<3, 6>>

\* C6: downsample_chunk with dst_lod <= src_lod panics and leaves every level of the
\* pyramid as it was.
C6_BadLodOrderPanics ==
    (call.op = "downsample_chunk" /\ call.lod_b <= call.lod_a)
    => (call.outcome = "panic" /\ levels = pre)

C6_Witness ==
    /\ call.op = "downsample_chunk"
    /\ call.lod_b < call.lod_a
    /\ ValidLod(levels, call.lod_a)
    /\ call.key \in DOMAIN levels[call.lod_a].storage
    /\ call.outcome = "panic"

\* C7: two_levels_mut(a, b) panics and returns no references whenever a >= b or one
\* of the two indices is not the index of a level.
C7_TwoLevelsMutRejects ==
    (/\ call.op = "two_levels_mut"
     /\ \/ call.lod_a >= call.lod_b
        \/ ~ValidLod(levels, call.lod_a)
        \/ ~ValidLod(levels, call.lod_b))
    => (/\ call.outcome = "panic"
        /\ call.map_a = NoRefs.map_a
        /\ call.map_b = NoRefs.map_b
        /\ levels = pre)

C7_Witness ==
    /\ call.op = "two_levels_mut"
    /\ call.lod_a > call.lod_b
    /\ ValidLod(levels, call.lod_a)
    /\ call.outcome = "panic"

\* C10: a pyramid built with num_lods has num_lods levels, all empty except level 0
\* when a LOD-0 map is supplied, and it has num_lods levels after every write and call.
C10_LevelCountFixed ==
    /\ DOMAIN levels = 0..(num_lods - 1)
    /\ call.op \in {"new", "with_lod0_chunk_map"}
        => \A lod \in DOMAIN levels :
              (lod > 0 \/ call.op = "new") => DOMAIN levels[lod].storage = {}

C10_Witness ==
    /\ num_lods = MaxLods
    /\ call.op = "downsample_chunks_for_extent_all_lods"
    /\ call.outcome = "ok"
    /\ \A lod \in DOMAIN levels : DOMAIN levels[lod].storage # {}

\* C2: a second downsample_entire_map_all_lods with the same downsampler, right after
\* the first, leaves the chunk keys and the voxels of every level as they were.
C2_EntireMapIdempotent ==
    (call.op = "downsample_entire_map_all_lods" /\ call.again) => levels = pre

C2_Witness ==
    /\ call.op = "downsample_entire_map_all_lods"
    /\ call.again
    /\ num_lods >= 3
    /\ Cardinality(DOMAIN levels[0].storage) >= 2
    /\ \E k \in DOMAIN levels[2].storage :
          \E p \in DOMAIN levels[2].storage[k].values :
             levels[2].storage[k].values[p] # levels[2].ambient_value

\* The part of the destination chunk that for_source_chunk assigns to a source chunk.
DstSubExtent(chunk_shape, src_chunk_key, lod_delta) ==
    LET d == for_source_chunk(chunk_shape, src_chunk_key, lod_delta)
    IN  from_min_and_shape(PointAdd(d.dst_chunk_key, d.dst_offset),
                           PointShrScalar(chunk_shape, lod_delta))

\* C3: downsample_chunk from a level without a chunk at src_key to a coarser level
\* does not invoke the downsampler, and afterwards every voxel of the source chunk's
\* sub-extent of the destination chunk holds the source map's ambient value.
C3_AmbientPropagation ==
    (/\ call.op = "downsample_chunk"
     /\ call.lod_a < call.lod_b
     /\ ValidLod(pre, call.lod_a)
     /\ ValidLod(pre, call.lod_b)
     /\ call.key \notin DOMAIN pre[call.lod_a].storage)
    => LET src_map == pre[call.lod_a]
           chunk_shape == src_map.indexer.chunk_shape
           lod_delta == call.lod_b - call.lod_a
           dst_key == for_source_chunk(chunk_shape, call.key, lod_delta).dst_chunk_key
           sub == DstSubExtent(chunk_shape, call.key, lod_delta)
           dst_storage == levels[call.lod_b].storage
       IN  /\ call.outcome = "ok"
           /\ ~call.sampled
           /\ dst_key \in DOMAIN dst_storage
           /\ \A p \in ExtentPoints(sub.minimum, sub.shape) :
                 /\ p \in DOMAIN dst_storage[dst_key].values
                 /\ dst_storage[dst_key].values[p] = src_map.ambient_value

\* The sequences that hold the elements of `seq` in another order.
Reorderings(seq) ==
    {[i \in 1..Len(seq) |-> seq[f[i]]] : f \in Permutations(1..Len(seq))}

\* C8: the pyramid that downsample_chunks_for_extent_all_lods leaves is the one that
\* processing the extent's LOD-0 chunk keys in any other order leaves.
C8_ExtentOrderIndependent ==
    (call.op = "downsample_chunks_for_extent_all_lods" /\ call.outcome = "ok")
    => \A keys \in Reorderings(chunk_keys_for_extent(pre[0].indexer, call.extent)) :
          all_lods_for_keys(pre, call.sampler, keys).levels = levels

\* The pyramid after the downsample_chunk calls of `steps`, in order.
RECURSIVE ApplySteps(_, _, _)
ApplySteps(lv, sampler, steps) ==
    IF steps = <<>> THEN lv
    ELSE ApplySteps(downsample_chunk(lv, sampler, Head(steps).src_chunk_key,
                                     Head(steps).src_lod, Head(steps).dst_lod).levels,
                    sampler, Tail(steps))

\* C9: on n levels, downsample_chunk_all_lods(sampler, k) makes exactly the n - 1
\* downsample_chunk calls with dst_lod = 1, ..., n - 1 in this order, each from
\* src_lod = dst_lod - 1 with the source key k >> (dst_lod - 1); with n <= 1 it
\* makes no call and changes nothing.
C9_AllLodsSteps ==
    call.op = "downsample_chunk_all_lods"
    => LET n == NumLevels(pre)
           expected == [d \in 1..(n - 1) |->
                           [src_chunk_key |-> PointShrScalar(call.key, d - 1),
                            src_lod |-> d - 1, dst_lod |-> d]]
       IN  /\ call.outcome = "ok"
           /\ call.steps = expected
           /\ levels = ApplySteps(pre, call.sampler, expected)
           /\ n <= 1 => (call.steps = <<>> /\ levels = pre)

C9_Witness ==
    /\ call.op = "downsample_chunk_all_lods"
    /\ Len(call.steps) = MaxLods - 1
    /\ call.key # PointZero(call.key)
    /\ levels # pre

AllLodsOps == {"downsample_chunk_all_lods", "downsample_chunks_for_extent_all_lods",
               "downsample_entire_map_all_lods"}

\* C11: the three all-LOD operations leave level 0 as it was: the same chunk keys
\* and the same voxels before and after the call.
C11_Lod0Untouched ==
    (call.op \in AllLodsOps /\ num_lods >= 1) => levels[0] = pre[0]

C11_Witness ==
    /\ call.op \in AllLodsOps
    /\ call.outcome = "ok"
    /\ num_lods >= 2
    /\ DOMAIN levels[0].storage # {}
    /\ levels[1] # pre[1]

C13_OnlyDestinationChunkChanges ==
    (/\ call.op = "downsample_chunk"
     /\ call.lod_a < call.lod_b
     /\ ValidLod(pre, call.lod_a)
     /\ ValidLod(pre, call.lod_b)) =>
        LET chunk_shape == pre[call.lod_a].indexer.chunk_shape
            lod_delta == call.lod_b - call.lod_a
            key == for_source_chunk(chunk_shape, call.key, lod_delta).dst_chunk_key
            sub == DstSubExtent(chunk_shape, call.key, lod_delta)
            before == pre[call.lod_b].storage
            after == levels[call.lod_b].storage
        IN  /\ \A lod \in DOMAIN levels : lod # call.lod_b => levels[lod] = pre[lod]
            /\ DOMAIN after = DOMAIN before \cup {key}
            /\ \A k \in DOMAIN before : k # key => after[k] = before[k]
            /\ key \notin DOMAIN before =>
                  \A p \in DOMAIN after[key].values :
                      ~ExtentContains(sub, p) =>
                          after[key].values[p] = levels[call.lod_b].ambient_value

\* C14: when downsample_chunk finds no source chunk, whatever lod_delta >= 1 is, the
\* voxels of the box at (destination chunk minimum + dst_offset) of shape
\* chunk_shape >> lod_delta hold the source map's ambient value afterwards, and every
\* voxel of the destination chunk outside that box has the value it had before
\* (the destination map's ambient value in a chunk the call created).  The
\* destination map is the one two_levels_mut hands to downsample_chunk.
C14_AmbientFillOnlySubExtent ==
    (/\ call.op = "downsample_chunk"
     /\ call.outcome = "ok"
     /\ ~call.sampled) =>
        LET chunk_shape == pre[call.lod_a].indexer.chunk_shape
            lod_delta == call.lod_b - call.lod_a
            dst_level == two_levels_mut(pre, call.lod_a, call.lod_b).map_b
            key == for_source_chunk(chunk_shape, call.key, lod_delta).dst_chunk_key
            sub == DstSubExtent(chunk_shape, call.key, lod_delta)
            before == pre[dst_level].storage
            after == levels[dst_level].storage[key].values
        IN  \A p \in DOMAIN after :
                after[p] = IF ExtentContains(sub, p)
                           THEN pre[call.lod_a].ambient_value
                           ELSE IF key \in DOMAIN before
                                THEN before[key].values[p]
                                ELSE pre[dst_level].ambient_value

ChunkAligned(chunk_shape, key) == \A i \in DOMAIN key : key[i] % chunk_shape[i] = 0

\* C15: in downsample_chunk_all_lods every step with dst_lod >= 2 reads level
\* dst_lod - 1 at a chunk-aligned key, the dst_chunk_key that the step before wrote.
C15_SourceIsChunkJustWritten ==
    call.op = "downsample_chunk_all_lods" =>
        \A j \in 2..Len(call.steps) :
            LET chunk_shape == builder.chunk_shape
                written == for_source_chunk(chunk_shape,
                                            call.steps[j - 1].src_chunk_key, 1).dst_chunk_key
            IN  /\ ChunkAligned(chunk_shape, call.steps[j].src_chunk_key)
                /\ call.steps[j].src_chunk_key = written

\* C16: after downsample_entire_map_all_lods the pyramid is coherent: for every level
\* L >= 1 and every chunk key k of level L - 1, the sub-extent of level L that
\* for_source_chunk(chunk_shape, k, 1) designates holds what the downsampler
\* produces from chunk k of level L - 1.
C16_CoherentAfterEntireMap ==
    (call.op = "downsample_entire_map_all_lods" /\ call.outcome = "ok") =>
        \A lod \in DOMAIN levels : \A k \in DOMAIN levels[IF lod >= 1 THEN lod - 1 ELSE 0].storage :
            lod >= 1 =>
                LET src_map == levels[lod - 1]
                    dst_map == levels[lod]
                    d == for_source_chunk(src_map.indexer.chunk_shape, k, 1)
                IN  /\ d.dst_chunk_key \in DOMAIN dst_map.storage
                    /\ downsample(call.sampler, src_map.storage[k],
                                  dst_map.storage[d.dst_chunk_key], d.dst_offset, 1)
                           = dst_map.storage[d.dst_chunk_key]

\* C17: the mesh entity map is exact: every entity stored in ChunkMeshes.entities
\* has been spawned and not despawned, every spawned mesh entity that has not been
\* despawned is stored under exactly one chunk key, and no entity is despawned twice.
C17_EntityMapExact ==
    /\ \A k \in DOMAIN entities : entities[k] \in world.spawned \ world.despawned
    /\ \A e \in world.spawned \ world.despawned :
          Cardinality({k \in DOMAIN entities : entities[k] = e}) = 1
    /\ ~world.twice

C17_Witness ==
    /\ ~hist.applied
    /\ Cardinality(world.despawned) >= 2
    /\ Cardinality(DOMAIN entities) >= 1
    /\ Cardinality(world.spawned) >= 4

\* The commands of a batch applied one at a time, each as a batch of its own.
RECURSIVE one_at_a_time(_, _, _)
one_at_a_time(st, cmds, meshable) ==
    IF cmds = <<>> THEN st
    ELSE one_at_a_time(run_batch(st, <<Head(cmds)>>, meshable), Tail(cmds), meshable)

\* C18: after mesh_generator_system has processed a batch, the chunk keys that have
\* a mesh entity are those that applying the commands one at a time in queue order
\* would leave: a key meshed by an earlier command and retired by a later one has none.
C18_BatchIsSequential ==
    hist.applied =>
        DOMAIN entities =
            DOMAIN one_at_a_time([entities |-> hist.before,
                                  world |-> [next |-> 0, spawned |-> {}, despawned |-> {},
                                             twice |-> FALSE]],
                                 hist.batch, hist.meshable).entities

\* C19: the commands taken by the runs of apply_mesh_commands, followed by those
\* still in the queue, are the commands added, in the order they were added; and the
\* queue is empty right after a run has taken its batch.
C19_CommandsTakenOnceInOrder ==
    /\ hist.taken \o new_commands = hist.added
    /\ gen.pc = "taken" => new_commands = <<>>

C19_Witness ==
    /\ gen.pc = "taken"
    /\ gen.batch # <<>>
    /\ Len(hist.taken) > Len(gen.batch)

====
